---- MODULE Spec2Model ----
(***************************************************************************)
(* Chunked encode/decode of AudioAutoencoder                               *)
(* (stable_audio_tools/models/autoencoders.py, encode_audio/decode_audio). *)
(*                                                                         *)
(* A tensor is modelled along its time axis only, as a function from       *)
(* 0..len-1 (Python indices) to values.  The codec is any deterministic    *)
(* local map: each output position is the tuple of the input positions it  *)
(* reads, reach_left frames to the left and reach_right frames to the      *)
(* right, a position outside the tensor handed to the codec reading the    *)
(* padding (-1).  Two outputs are equal exactly when they read the same    *)
(* inputs, which is the worst case over all codecs of that reach.          *)
(***************************************************************************)
EXTENDS Integers, Sequences, FiniteSets, TLC

VARIABLES
    call,               \* "encode_audio" or "decode_audio"
    args,               \* the call's arguments [chunked, overlap, chunk_size]
    downsampling_ratio, \* self.downsampling_ratio
    reach_left,         \* frames to the left an output position of the codec reads
    reach_right,        \* frames to the right an output position of the codec reads
    total_size,         \* audio.shape[2] / latents.shape[2]
    chunk_size,         \* local chunk_size (encode_audio converts it to samples)
    overlap,            \* local overlap (encode_audio converts it to samples)
    hop_size,
    i,                  \* the loop variable i of both for loops
    i_set,              \* whether i has been bound
    chunks,             \* the windows collected, each [start, len] of the input
    y_size,
    y_final,            \* the output tensor
    pastes,             \* history of the slice assignments of the stitching loop
    pc,                 \* "call", "collect", "stitch", "done", "error"
    err,                \* the exception raised, "" if none
    orig_len,           \* length of the audio a preceding encode_audio was given, 0 if none
    has_bottleneck,     \* self.bottleneck is not None
    log,                \* history of the stage invocations of self.encode / self.decode
    prev,               \* args, chunks and pastes of a preceding encode_audio call
    factory,            \* state of a create_*_from_config call
    stages,             \* state of an AudioAutoencoder.encode / decode call
    prep                \* state of a preprocess_audio_list_for_encoder call

vars == <<call, args, downsampling_ratio, reach_left, reach_right, total_size,
          chunk_size, overlap, hop_size, i, i_set, chunks, y_size, y_final,
          pastes, pc, err, orig_len, has_bottleneck, log, prev, factory,
          stages, prep>>

(* Bounds of the model *)
MaxFrames == 8
MaxChunk == 4
MaxOverlap == 4
MaxRatio == 2
MaxReach == 2

Min(a, b) == IF a < b THEN a ELSE b
Max(a, b) == IF a > b THEN a ELSE b

TLen(t) == Cardinality(DOMAIN t)

(* Python slice normalisation of one bound against a length n *)
PyIndex(a, n) == IF a < 0 THEN Max(a + n, 0) ELSE Min(a, n)

(* x[a:b] on a tensor of length n selects lo..hi-1 *)
PySlice(a, b, n) ==
    LET lo == PyIndex(a, n)
        hi == PyIndex(b, n)
    IN  [lo |-> lo, hi |-> Max(lo, hi)]

(* v in range(0, stop, step), for a v already on the step grid *)
InRange(v, stop, step) == IF step > 0 THEN v < stop ELSE v > stop

(* audio[:, :, a:b]: the window of the input the slice denotes *)
Window(a, b, n) ==
    LET s == PySlice(a, b, n) IN [start |-> s.lo, len |-> s.hi - s.lo]

(* variant: the first chunk_size positions, audio[:, :, :chunk_size] *)
LastWindow_first(cs, n) == Window(0, cs, n)

(* audio[:, :, -chunk_size:] *)
LastWindow(cs, n) == Window(0 - cs, n, n)

(* torch.stack needs tensors of one shape *)
Stackable(cks) == \A a, b \in 1..Len(cks) : cks[a].len = cks[b].len

(* torch.zeros: a buffer of n zeros *)
Zeros(n) == [p \in 0..(n - 1) |-> <<>>]

(* self.encode(x): output frame j reads the samples of frames j-reach_left..j+reach_right *)
EncodeOut(w) ==
    [j \in 0..((w.len \div downsampling_ratio) - 1) |->
        [d \in 1..((reach_left + reach_right + 1) * downsampling_ratio) |->
            LET off == (j - reach_left) * downsampling_ratio + d - 1
            IN  IF off >= 0 /\ off < w.len THEN w.start + off ELSE -1]]

(* self.decode(x): output sample q, at phase q % R of frame q // R, reads the
   frames q//R-reach_left..q//R+reach_right *)
DecodeOut(w) ==
    [q \in 0..(w.len * downsampling_ratio - 1) |->
        <<q % downsampling_ratio>> \o
        [f \in 1..(reach_left + reach_right + 1) |->
            LET fr == (q \div downsampling_ratio) - reach_left + f - 1
            IN  IF fr >= 0 /\ fr < w.len THEN w.start + fr ELSE -1]]

(* the whole input as one window *)
Whole == [start |-> 0, len |-> total_size]

(* y_final[:, :, ts:te] = y_chunk[:, :, cs:ce] is accepted when the shapes
   agree or the source broadcasts *)
PasteOK(yl, cl, ts, te, cs, ce) ==
    LET t == PySlice(ts, te, yl)
        s == PySlice(cs, ce, cl)
    IN  \/ t.hi - t.lo = s.hi - s.lo
        \/ s.hi - s.lo = 1

(* variant: the source is read from its index 0, not from chunk_start *)
PasteResult_fromzero(y, yc, ts, te, cs, ce) ==
    LET t == PySlice(ts, te, TLen(y))
    IN  [p \in DOMAIN y |->
            IF p >= t.lo /\ p < t.hi THEN yc[p - t.lo] ELSE y[p]]

(* y_final[:, :, ts:te] = y_chunk[:, :, cs:ce] *)
PasteResult(y, yc, ts, te, cs, ce) ==
    LET t == PySlice(ts, te, TLen(y))
        s == PySlice(cs, ce, TLen(yc))
    IN  [p \in DOMAIN y |->
            IF p >= t.lo /\ p < t.hi
            THEN IF s.hi - s.lo = 1 THEN yc[s.lo] ELSE yc[s.lo + (p - t.lo)]
            ELSE y[p]]

PasteRecord(k, w, ycl, ts, te, cs, ce) ==
    [i |-> k, start |-> w.start, len |-> w.len, y_chunk_len |-> ycl,
     t_start |-> ts, t_end |-> te, chunk_start |-> cs, chunk_end |-> ce]

(* a stage of self.encode / self.decode invoked on the window w; k is the
   index of the chunk in the stitching loop, -1 outside the loop *)
StageCall(st, w, k) == [stage |-> st, start |-> w.start, len |-> w.len, chunk |-> k]

(* self.encode(x): the encoder, then bottleneck.encode when there is one *)
EncodeStages(w, k) ==
    <<StageCall("encoder", w, k)>> \o
    (IF has_bottleneck THEN <<StageCall("bottleneck.encode", w, k)>> ELSE <<>>)

(* variant: the decoder alone *)
DecodeStages_nobottleneck(w, k) == <<StageCall("decoder", w, k)>>

(* self.decode(x): bottleneck.decode when there is one, then the decoder *)
DecodeStages(w, k) ==
    (IF has_bottleneck THEN <<StageCall("bottleneck.decode", w, k)>> ELSE <<>>) \o
    <<StageCall("decoder", w, k)>>

(* the machines of the other operations are not running *)
Idle == [pc |-> "idle"]

OthersIdle == factory = Idle /\ stages = Idle /\ prep = Idle

NoPrev == [args |-> [chunked |-> FALSE, overlap |-> 0, chunk_size |-> 0],
           chunks |-> <<>>, pastes |-> <<>>]

----------------------------------------------------------------------------
(* encode_audio *)

(* variant: every iteration takes the first chunk *)
Enc_x_chunk_first(cks, k) == cks[1]

(* x_chunk = chunks[i, :] *)
Enc_x_chunk(cks, k) == cks[k + 1]

(* chunk_size *= samples_per_latent *)
Enc_chunk_size(cs, R) == cs * R

(* overlap *= samples_per_latent *)
Enc_overlap(ov, R) == ov * R

(* variant: hop of a whole chunk *)
Enc_hop_size_noov(cs, ov) == cs

(* hop_size = chunk_size - overlap *)
Enc_hop_size(cs, ov) == cs - ov

(* the stop of range(0, total_size - chunk_size + 1, hop_size) *)
Enc_range_stop(total, cs) == total - cs + 1

(* variant: no final chunk *)
Enc_needs_final_never(k, cs, total) == FALSE

(* if i + chunk_size != total_size *)
Enc_needs_final(k, cs, total) == k + cs # total

(* variant: length not divided by the ratio *)
Enc_y_size_noratio(total, R) == total

(* y_size = total_size // samples_per_latent *)
Enc_y_size(total, R) == total \div R

(* if i == num_chunks - 1 *)
Enc_is_last(k, n) == k = n - 1

(* t_start = t_end - y_chunk.shape[2], else i * hop_size // samples_per_latent *)
Enc_t_start(k, n, ys, ycl, hop, R) ==
    IF Enc_is_last(k, n) THEN ys - ycl ELSE (k * hop) \div R

(* variant: the end taken in samples *)
Enc_t_end_samples(k, n, ys, ts, cs, R) ==
    IF Enc_is_last(k, n) THEN ys ELSE ts + cs

(* t_end = y_size, else t_start + chunk_size // samples_per_latent *)
Enc_t_end(k, n, ys, ts, cs, R) ==
    IF Enc_is_last(k, n) THEN ys ELSE ts + cs \div R

(* variant: half overlap rounded up *)
Enc_ol_up(ov, R) == ((ov \div R) + 1) \div 2

(* ol = overlap // samples_per_latent // 2 *)
Enc_ol(ov, R) == (ov \div R) \div 2

(* if i > 0 *)
Enc_trim_start(k) == k > 0

(* variant: the last chunk's end is trimmed too *)
Enc_trim_end_always(k, n) == k < n

(* if i < num_chunks - 1 *)
Enc_trim_end(k, n) == k < n - 1

Enc_Unchunked ==
    /\ pc = "call" /\ call = "encode_audio" /\ ~args.chunked
    /\ y_final' = EncodeOut(Whole)
    /\ y_size' = TLen(y_final')
    /\ pc' = "done"
    /\ UNCHANGED <<call, args, downsampling_ratio, reach_left, reach_right,
                   total_size, chunk_size, overlap, hop_size, i, i_set, chunks,
                   pastes, err, orig_len>>
    /\ log' = log \o EncodeStages(Whole, -1)
    /\ UNCHANGED <<has_bottleneck, prev, factory, stages, prep>>

Enc_Setup ==
    /\ pc = "call" /\ call = "encode_audio" /\ args.chunked
    /\ chunk_size' = Enc_chunk_size(chunk_size, downsampling_ratio)
    /\ overlap' = Enc_overlap(overlap, downsampling_ratio)
    /\ hop_size' = Enc_hop_size(chunk_size', overlap')
    /\ chunks' = <<>>
    /\ IF hop_size' = 0
       THEN pc' = "error" /\ err' = "ValueError"
       ELSE pc' = "collect" /\ err' = err
    /\ UNCHANGED <<call, args, downsampling_ratio, reach_left, reach_right,
                   total_size, i, i_set, y_size, y_final, pastes, orig_len>>
    /\ UNCHANGED <<has_bottleneck, log, prev, factory, stages, prep>>

Enc_CollectChunk ==
    /\ pc = "collect" /\ call = "encode_audio"
    /\ LET nxt == IF i_set THEN i + hop_size ELSE 0
       IN  /\ InRange(nxt, Enc_range_stop(total_size, chunk_size), hop_size)
           /\ i' = nxt
           /\ i_set' = TRUE
           /\ chunks' = Append(chunks, Window(nxt, nxt + chunk_size, total_size))
    /\ UNCHANGED <<call, args, downsampling_ratio, reach_left, reach_right,
                   total_size, chunk_size, overlap, hop_size, y_size, y_final,
                   pastes, pc, err, orig_len>>
    /\ UNCHANGED <<has_bottleneck, log, prev, factory, stages, prep>>

Enc_FinalChunk ==
    /\ pc = "collect" /\ call = "encode_audio"
    /\ LET nxt == IF i_set THEN i + hop_size ELSE 0
       IN  ~InRange(nxt, Enc_range_stop(total_size, chunk_size), hop_size)
    /\ IF ~i_set
       THEN /\ pc' = "error" /\ err' = "UnboundLocalError"
            /\ UNCHANGED <<chunks, y_size, y_final>>
       ELSE LET cks == IF Enc_needs_final(i, chunk_size, total_size)
                       THEN Append(chunks, LastWindow(chunk_size, total_size))
                       ELSE chunks
            IN  /\ chunks' = cks
                /\ IF ~Stackable(cks)
                   THEN /\ pc' = "error" /\ err' = "RuntimeError"
                        /\ UNCHANGED <<y_size, y_final>>
                   ELSE /\ y_size' = Enc_y_size(total_size, downsampling_ratio)
                        /\ y_final' = Zeros(y_size')
                        /\ pc' = "stitch" /\ err' = err
    /\ UNCHANGED <<call, args, downsampling_ratio, reach_left, reach_right,
                   total_size, chunk_size, overlap, hop_size, i, i_set, pastes,
                   orig_len>>
    /\ UNCHANGED <<has_bottleneck, log, prev, factory, stages, prep>>

Enc_StitchChunk ==
    /\ pc = "stitch" /\ call = "encode_audio"
    /\ Len(pastes) < Len(chunks)
    /\ LET k == Len(pastes)
           n == Len(chunks)
           x_chunk == Enc_x_chunk(chunks, k)
           y_chunk == EncodeOut(x_chunk)
           ycl == TLen(y_chunk)
           ts0 == Enc_t_start(k, n, y_size, ycl, hop_size, downsampling_ratio)
           te0 == Enc_t_end(k, n, y_size, ts0, chunk_size, downsampling_ratio)
           ol == Enc_ol(overlap, downsampling_ratio)
           ts == IF Enc_trim_start(k) THEN ts0 + ol ELSE ts0
           cs == IF Enc_trim_start(k) THEN ol ELSE 0
           te == IF Enc_trim_end(k, n) THEN te0 - ol ELSE te0
           ce == IF Enc_trim_end(k, n) THEN ycl - ol ELSE ycl
       IN  /\ i' = k
           /\ i_set' = TRUE
           /\ pastes' = Append(pastes, PasteRecord(k, x_chunk, ycl, ts, te, cs, ce))
           /\ IF PasteOK(y_size, ycl, ts, te, cs, ce)
              THEN /\ y_final' = PasteResult(y_final, y_chunk, ts, te, cs, ce)
                   /\ UNCHANGED <<pc, err>>
              ELSE /\ pc' = "error" /\ err' = "RuntimeError"
                   /\ UNCHANGED y_final
    /\ UNCHANGED <<call, args, downsampling_ratio, reach_left, reach_right,
                   total_size, chunk_size, overlap, hop_size, chunks, y_size,
                   orig_len>>
    /\ log' = log \o EncodeStages(Enc_x_chunk(chunks, Len(pastes)), Len(pastes))
    /\ UNCHANGED <<has_bottleneck, prev, factory, stages, prep>>

Enc_Return ==
    /\ pc = "stitch" /\ call = "encode_audio"
    /\ Len(pastes) = Len(chunks)
    /\ pc' = "done"
    /\ UNCHANGED <<call, args, downsampling_ratio, reach_left, reach_right,
                   total_size, chunk_size, overlap, hop_size, i, i_set, chunks,
                   y_size, y_final, pastes, err, orig_len>>
    /\ UNCHANGED <<has_bottleneck, log, prev, factory, stages, prep>>

----------------------------------------------------------------------------
(* decode_audio *)

(* x_chunk = chunks[i, :] *)
Dec_x_chunk(cks, k) == cks[k + 1]

(* variant: hop of a whole chunk *)
Dec_hop_size_noov(cs, ov) == cs

(* hop_size = chunk_size - overlap *)
Dec_hop_size(cs, ov) == cs - ov

(* variant: range stop one short *)
Dec_range_stop_short(total, cs) == total - cs

(* the stop of range(0, total_size - chunk_size + 1, hop_size) *)
Dec_range_stop(total, cs) == total - cs + 1

(* variant: the final chunk is always appended *)
Dec_needs_final_always(k, cs, total) == TRUE

(* if i + chunk_size != total_size *)
Dec_needs_final(k, cs, total) == k + cs # total

(* variant: length not multiplied by the ratio *)
Dec_y_size_noratio(total, R) == total

(* y_size = total_size * samples_per_latent *)
Dec_y_size(total, R) == total * R

(* if i == num_chunks - 1 *)
Dec_is_last(k, n) == k = n - 1

(* t_start = t_end - y_chunk.shape[2], else i * hop_size * samples_per_latent *)
Dec_t_start(k, n, ys, ycl, hop, R) ==
    IF Dec_is_last(k, n) THEN ys - ycl ELSE k * hop * R

(* t_end = y_size, else t_start + chunk_size * samples_per_latent *)
Dec_t_end(k, n, ys, ts, cs, R) ==
    IF Dec_is_last(k, n) THEN ys ELSE ts + cs * R

(* variant: half overlap left in latent frames *)
Dec_ol_noratio(ov, R) == ov \div 2

(* ol = (overlap // 2) * samples_per_latent *)
Dec_ol(ov, R) == (ov \div 2) * R

(* variant: no chunk's start is trimmed *)
Dec_trim_start_never(k) == FALSE

(* if i > 0 *)
Dec_trim_start(k) == k > 0

(* variant: no chunk's end is trimmed *)
Dec_trim_end_never(k, n) == FALSE

(* if i < num_chunks - 1 *)
Dec_trim_end(k, n) == k < n - 1

Dec_Unchunked ==
    /\ pc = "call" /\ call = "decode_audio" /\ ~args.chunked
    /\ y_final' = DecodeOut(Whole)
    /\ y_size' = TLen(y_final')
    /\ pc' = "done"
    /\ UNCHANGED <<call, args, downsampling_ratio, reach_left, reach_right,
                   total_size, chunk_size, overlap, hop_size, i, i_set, chunks,
                   pastes, err, orig_len>>
    /\ log' = log \o DecodeStages(Whole, -1)
    /\ UNCHANGED <<has_bottleneck, prev, factory, stages, prep>>

Dec_Setup ==
    /\ pc = "call" /\ call = "decode_audio" /\ args.chunked
    /\ hop_size' = Dec_hop_size(chunk_size, overlap)
    /\ chunks' = <<>>
    /\ IF hop_size' = 0
       THEN pc' = "error" /\ err' = "ValueError"
       ELSE pc' = "collect" /\ err' = err
    /\ UNCHANGED <<call, args, downsampling_ratio, reach_left, reach_right,
                   total_size, chunk_size, overlap, i, i_set, y_size, y_final,
                   pastes, orig_len>>
    /\ UNCHANGED <<has_bottleneck, log, prev, factory, stages, prep>>

Dec_CollectChunk ==
    /\ pc = "collect" /\ call = "decode_audio"
    /\ LET nxt == IF i_set THEN i + hop_size ELSE 0
       IN  /\ InRange(nxt, Dec_range_stop(total_size, chunk_size), hop_size)
           /\ i' = nxt
           /\ i_set' = TRUE
           /\ chunks' = Append(chunks, Window(nxt, nxt + chunk_size, total_size))
    /\ UNCHANGED <<call, args, downsampling_ratio, reach_left, reach_right,
                   total_size, chunk_size, overlap, hop_size, y_size, y_final,
                   pastes, pc, err, orig_len>>
    /\ UNCHANGED <<has_bottleneck, log, prev, factory, stages, prep>>

Dec_FinalChunk ==
    /\ pc = "collect" /\ call = "decode_audio"
    /\ LET nxt == IF i_set THEN i + hop_size ELSE 0
       IN  ~InRange(nxt, Dec_range_stop(total_size, chunk_size), hop_size)
    /\ IF ~i_set
       THEN /\ pc' = "error" /\ err' = "UnboundLocalError"
            /\ UNCHANGED <<chunks, y_size, y_final>>
       ELSE LET cks == IF Dec_needs_final(i, chunk_size, total_size)
                       THEN Append(chunks, LastWindow(chunk_size, total_size))
                       ELSE chunks
            IN  /\ chunks' = cks
                /\ IF ~Stackable(cks)
                   THEN /\ pc' = "error" /\ err' = "RuntimeError"
                        /\ UNCHANGED <<y_size, y_final>>
                   ELSE /\ y_size' = Dec_y_size(total_size, downsampling_ratio)
                        /\ y_final' = Zeros(y_size')
                        /\ pc' = "stitch" /\ err' = err
    /\ UNCHANGED <<call, args, downsampling_ratio, reach_left, reach_right,
                   total_size, chunk_size, overlap, hop_size, i, i_set, pastes,
                   orig_len>>
    /\ UNCHANGED <<has_bottleneck, log, prev, factory, stages, prep>>

Dec_StitchChunk ==
    /\ pc = "stitch" /\ call = "decode_audio"
    /\ Len(pastes) < Len(chunks)
    /\ LET k == Len(pastes)
           n == Len(chunks)
           x_chunk == Dec_x_chunk(chunks, k)
           y_chunk == DecodeOut(x_chunk)
           ycl == TLen(y_chunk)
           ts0 == Dec_t_start(k, n, y_size, ycl, hop_size, downsampling_ratio)
           te0 == Dec_t_end(k, n, y_size, ts0, chunk_size, downsampling_ratio)
           ol == Dec_ol(overlap, downsampling_ratio)
           ts == IF Dec_trim_start(k) THEN ts0 + ol ELSE ts0
           cs == IF Dec_trim_start(k) THEN ol ELSE 0
           te == IF Dec_trim_end(k, n) THEN te0 - ol ELSE te0
           ce == IF Dec_trim_end(k, n) THEN ycl - ol ELSE ycl
       IN  /\ i' = k
           /\ i_set' = TRUE
           /\ pastes' = Append(pastes, PasteRecord(k, x_chunk, ycl, ts, te, cs, ce))
           /\ IF PasteOK(y_size, ycl, ts, te, cs, ce)
              THEN /\ y_final' = PasteResult(y_final, y_chunk, ts, te, cs, ce)
                   /\ UNCHANGED <<pc, err>>
              ELSE /\ pc' = "error" /\ err' = "RuntimeError"
                   /\ UNCHANGED y_final
    /\ UNCHANGED <<call, args, downsampling_ratio, reach_left, reach_right,
                   total_size, chunk_size, overlap, hop_size, chunks, y_size,
                   orig_len>>
    /\ log' = log \o DecodeStages(Dec_x_chunk(chunks, Len(pastes)), Len(pastes))
    /\ UNCHANGED <<has_bottleneck, prev, factory, stages, prep>>

Dec_Return ==
    /\ pc = "stitch" /\ call = "decode_audio"
    /\ Len(pastes) = Len(chunks)
    /\ pc' = "done"
    /\ UNCHANGED <<call, args, downsampling_ratio, reach_left, reach_right,
                   total_size, chunk_size, overlap, hop_size, i, i_set, chunks,
                   y_size, y_final, pastes, err, orig_len>>
    /\ UNCHANGED <<has_bottleneck, log, prev, factory, stages, prep>>

(* decode_audio applied to the latents an encode_audio call returned *)
RoundTrip ==
    /\ pc = "done" /\ call = "encode_audio" /\ orig_len = 0
    /\ call' = "decode_audio"
    /\ orig_len' = total_size
    /\ total_size' = TLen(y_final)
    /\ \E ck \in BOOLEAN, cs \in 1..MaxChunk, ov \in 0..MaxOverlap :
          /\ args' = [chunked |-> ck, overlap |-> ov, chunk_size |-> cs]
          /\ chunk_size' = cs
          /\ overlap' = ov
    /\ hop_size' = 0 /\ i' = 0 /\ i_set' = FALSE /\ chunks' = <<>>
    /\ y_size' = 0 /\ y_final' = <<>> /\ pastes' = <<>>
    /\ pc' = "call" /\ err' = ""
    /\ prev' = [args |-> args, chunks |-> chunks, pastes |-> pastes]
    /\ log' = <<>>
    /\ UNCHANGED <<downsampling_ratio, reach_left, reach_right, has_bottleneck,
                   factory, stages, prep>>

----------------------------------------------------------------------------
(* A call on an input of n latent frames; audio has been padded to a multiple
   of the downsampling ratio by preprocess_audio_for_encoder *)
InitCall(c, ck, R, n, cs, ov, rl, rr) ==
    /\ call = c
    /\ args = [chunked |-> ck, overlap |-> ov, chunk_size |-> cs]
    /\ downsampling_ratio = R
    /\ reach_left = rl /\ reach_right = rr
    /\ total_size = IF c = "encode_audio" THEN n * R ELSE n
    /\ chunk_size = cs /\ overlap = ov
    /\ hop_size = 0 /\ i = 0 /\ i_set = FALSE /\ chunks = <<>>
    /\ y_size = 0 /\ y_final = <<>> /\ pastes = <<>>
    /\ pc = "call" /\ err = "" /\ orig_len = 0
    /\ has_bottleneck \in BOOLEAN
    /\ log = <<>> /\ prev = NoPrev
    /\ OthersIdle

InitBounded ==
    \E c \in {"encode_audio", "decode_audio"}, ck \in BOOLEAN,
       R \in 1..MaxRatio, n \in 1..MaxFrames, cs \in 1..MaxChunk,
       ov \in 0..MaxOverlap, rl \in 0..MaxReach, rr \in 0..MaxReach :
        InitCall(c, ck, R, n, cs, ov, rl, rr)

(* 1000 samples at ratio 10, chunk_size 32 and overlap 8 latent frames *)
InitScenario == InitCall("encode_audio", TRUE, 10, 100, 32, 8, 0, 0)

Init == InitBounded \/ InitScenario

Next ==
    \/ Enc_Unchunked \/ Enc_Setup \/ Enc_CollectChunk \/ Enc_FinalChunk
    \/ Enc_StitchChunk \/ Enc_Return
    \/ Dec_Unchunked \/ Dec_Setup \/ Dec_CollectChunk \/ Dec_FinalChunk
    \/ Dec_StitchChunk \/ Dec_Return

Spec == Init /\ [][Next]_vars

(* encode_audio followed by decode_audio of its result, codec reach 0 *)
InitRT ==
    \E ck \in BOOLEAN, R \in 1..MaxRatio, n \in 1..MaxFrames,
       cs \in 1..MaxChunk, ov \in 0..MaxOverlap :
        InitCall("encode_audio", ck, R, n, cs, ov, 0, 0)

NextRT == Next \/ RoundTrip

SpecRT == InitRT /\ [][NextRT]_vars

-----------------------------------------------------------------------------
(* A codec invocation that raises inside the stitching loop *)

(* variant: the loop catches the exception and goes on with the next chunk *)
Uncaught_continue == "stitch"

(* self.encode(x_chunk) / self.decode(x_chunk) stand in no try block: an
   exception leaves the loop and the call *)
Uncaught == "error"

(* y_chunk = self.encode(x_chunk) raises in the encoder *)
Enc_CodecFails ==
    /\ pc = "stitch" /\ call = "encode_audio"
    /\ Len(pastes) < Len(chunks)
    /\ pc' = Uncaught
    /\ err' = "CodecError"
    /\ i' = Len(pastes)
    /\ i_set' = TRUE
    /\ log' = log \o <<StageCall("encoder", Enc_x_chunk(chunks, Len(pastes)), Len(pastes))>>
    /\ UNCHANGED <<call, args, downsampling_ratio, reach_left, reach_right,
                   total_size, chunk_size, overlap, hop_size, chunks, y_size,
                   y_final, pastes, orig_len>>
    /\ UNCHANGED <<has_bottleneck, prev, factory, stages, prep>>

(* y_chunk = self.decode(x_chunk) raises in the decoder *)
Dec_CodecFails ==
    /\ pc = "stitch" /\ call = "decode_audio"
    /\ Len(pastes) < Len(chunks)
    /\ pc' = Uncaught
    /\ err' = "CodecError"
    /\ i' = Len(pastes)
    /\ i_set' = TRUE
    /\ log' = log \o DecodeStages(Dec_x_chunk(chunks, Len(pastes)), Len(pastes))
    /\ UNCHANGED <<call, args, downsampling_ratio, reach_left, reach_right,
                   total_size, chunk_size, overlap, hop_size, chunks, y_size,
                   y_final, pastes, orig_len>>
    /\ UNCHANGED <<has_bottleneck, prev, factory, stages, prep>>

NextFail == Next \/ Enc_CodecFails \/ Dec_CodecFails

SpecFail == Init /\ [][NextFail]_vars

-----------------------------------------------------------------------------
(* The factories. A config is abstracted to what the factories look at: the
   type tag of each section ("absent": the section is not in the config,
   "None": the section has no "type", "unknown": a type no branch matches)
   and the presence of each optional or required key. *)

(* no chunked call is in progress *)
CallIdle ==
    /\ call = "none" /\ args = NoPrev.args
    /\ downsampling_ratio = 1 /\ reach_left = 0 /\ reach_right = 0
    /\ total_size = 0 /\ chunk_size = 0 /\ overlap = 0 /\ hop_size = 0
    /\ i = 0 /\ i_set = FALSE /\ chunks = <<>> /\ y_size = 0
    /\ y_final = <<>> /\ pastes = <<>> /\ pc = "idle" /\ err = ""
    /\ orig_len = 0 /\ has_bottleneck = FALSE /\ log = <<>> /\ prev = NoPrev

EncoderTypes == {"oobleck", "seanet", "dac", "local_attn"}

DecoderTypes == {"oobleck", "seanet", "dac", "local_attn"}

DiffusionTypes == {"DAU1d", "adp_1d", "dit"}

NoErr == [type |-> "", msg |-> "", arg |-> ""]

(* an exception: its class, its message and the name the message carries *)
Raise(t, m, a) == [type |-> t, msg |-> m, arg |-> a]

(* config[key] on a dict without the key *)
KeyError(key) == Raise("KeyError", "", key)

(* what a factory call has constructed, in order, and how it ended *)
Outcome(b, e) == [built |-> b, err |-> e]

create_encoder_from_config(tag) ==
    IF tag = "None"
    THEN Outcome(<<>>, Raise("AssertionError", "Encoder type must be specified", "type"))
    ELSE IF tag \in EncoderTypes
         THEN Outcome(<<"encoder">>, NoErr)
         ELSE Outcome(<<>>, Raise("ValueError", "Unknown encoder type {encoder_type}", tag))

create_decoder_from_config(tag) ==
    IF tag = "None"
    THEN Outcome(<<>>, Raise("AssertionError", "Decoder type must be specified", "type"))
    ELSE IF tag \in DecoderTypes
         THEN Outcome(<<"decoder">>, NoErr)
         ELSE Outcome(<<>>, Raise("ValueError", "Unknown decoder type {decoder_type}", tag))

(* variant: sample_rate is not checked *)
FirstMissing_nosamplerate(cfg) ==
    IF ~cfg.latent_dim THEN "latent_dim"
    ELSE IF ~cfg.downsampling_ratio THEN "downsampling_ratio"
    ELSE IF ~cfg.io_channels THEN "io_channels"
    ELSE ""

(* the asserts on latent_dim, downsampling_ratio, io_channels, sample_rate,
   in this order: the key the first failing assert is about, "" if none *)
FirstMissing(cfg) ==
    IF ~cfg.latent_dim THEN "latent_dim"
    ELSE IF ~cfg.downsampling_ratio THEN "downsampling_ratio"
    ELSE IF ~cfg.io_channels THEN "io_channels"
    ELSE IF ~cfg.sample_rate THEN "sample_rate"
    ELSE ""

MustBeSpecified(key) ==
    Raise("AssertionError", "{key} must be specified in model config", key)

(* create_pretransform_from_config, then create_bottleneck_from_config *)
Optionals(cfg) ==
    (IF cfg.pretransform THEN <<"pretransform">> ELSE <<>>)
        \o (IF cfg.bottleneck THEN <<"bottleneck">> ELSE <<>>)

create_autoencoder_from_config(cfg) ==
    IF cfg.encoder = "absent" THEN Outcome(<<>>, KeyError("encoder"))
    ELSE
    LET e == create_encoder_from_config(cfg.encoder) IN
    IF e.err # NoErr THEN Outcome(e.built, e.err)
    ELSE IF cfg.decoder = "absent" THEN Outcome(e.built, KeyError("decoder"))
    ELSE
    LET d == create_decoder_from_config(cfg.decoder) IN
    IF d.err # NoErr THEN Outcome(e.built \o d.built, d.err)
    ELSE IF FirstMissing(cfg) # ""
         THEN Outcome(e.built \o d.built, MustBeSpecified(FirstMissing(cfg)))
         ELSE Outcome(e.built \o d.built \o Optionals(cfg) \o <<"AudioAutoencoder">>,
                      NoErr)

(* diffae_config["diffusion"]["type"] and the if/elif chain on it, which has
   no else branch *)
SelectDiffusion(tag) ==
    IF tag = "absent" THEN Outcome(<<>>, KeyError("diffusion"))
    ELSE IF tag = "None" THEN Outcome(<<>>, KeyError("type"))
    ELSE IF tag \in DiffusionTypes THEN Outcome(<<"diffusion">>, NoErr)
    ELSE Outcome(<<>>, NoErr)

(* diffusion=diffusion in the constructor call reads a local that no branch
   has bound *)
UnboundDiffusion ==
    Raise("UnboundLocalError",
          "local variable 'diffusion' referenced before assignment", "diffusion")

create_diffAE_from_config(cfg) ==
    LET e == IF cfg.encoder = "absent" THEN Outcome(<<>>, NoErr)
             ELSE create_encoder_from_config(cfg.encoder) IN
    IF e.err # NoErr THEN Outcome(e.built, e.err)
    ELSE
    LET d == IF cfg.decoder = "absent" THEN Outcome(<<>>, NoErr)
             ELSE create_decoder_from_config(cfg.decoder) IN
    IF d.err # NoErr THEN Outcome(e.built \o d.built, d.err)
    ELSE
    LET f == SelectDiffusion(cfg.diffusion)
        b == e.built \o d.built \o f.built IN
    IF f.err # NoErr THEN Outcome(b, f.err)
    ELSE IF FirstMissing(cfg) # "" THEN Outcome(b, MustBeSpecified(FirstMissing(cfg)))
    ELSE IF f.built = <<>> THEN Outcome(b \o Optionals(cfg), UnboundDiffusion)
    ELSE Outcome(b \o Optionals(cfg) \o <<"DiffusionAutoencoder">>, NoErr)

(* a finished factory call *)
Finish(fn, cfg, out) ==
    [pc |-> IF out.err = NoErr THEN "done" ELSE "error",
     fn |-> fn, cfg |-> cfg, built |-> out.built, err |-> out.err]

Factory_CreateEncoder ==
    /\ factory.pc = "call" /\ factory.fn = "create_encoder_from_config"
    /\ factory' = Finish(factory.fn, factory.cfg,
                         create_encoder_from_config(factory.cfg.encoder))
    /\ UNCHANGED <<call, args, downsampling_ratio, reach_left, reach_right,
                   total_size, chunk_size, overlap, hop_size, i, i_set, chunks,
                   y_size, y_final, pastes, pc, err, orig_len>>
    /\ UNCHANGED <<has_bottleneck, log, prev, stages, prep>>

Factory_CreateDecoder ==
    /\ factory.pc = "call" /\ factory.fn = "create_decoder_from_config"
    /\ factory' = Finish(factory.fn, factory.cfg,
                         create_decoder_from_config(factory.cfg.decoder))
    /\ UNCHANGED <<call, args, downsampling_ratio, reach_left, reach_right,
                   total_size, chunk_size, overlap, hop_size, i, i_set, chunks,
                   y_size, y_final, pastes, pc, err, orig_len>>
    /\ UNCHANGED <<has_bottleneck, log, prev, stages, prep>>

Factory_CreateAutoencoder ==
    /\ factory.pc = "call" /\ factory.fn = "create_autoencoder_from_config"
    /\ factory' = Finish(factory.fn, factory.cfg,
                         create_autoencoder_from_config(factory.cfg))
    /\ UNCHANGED <<call, args, downsampling_ratio, reach_left, reach_right,
                   total_size, chunk_size, overlap, hop_size, i, i_set, chunks,
                   y_size, y_final, pastes, pc, err, orig_len>>
    /\ UNCHANGED <<has_bottleneck, log, prev, stages, prep>>

Factory_CreateDiffAE ==
    /\ factory.pc = "call" /\ factory.fn = "create_diffAE_from_config"
    /\ factory' = Finish(factory.fn, factory.cfg,
                         create_diffAE_from_config(factory.cfg))
    /\ UNCHANGED <<call, args, downsampling_ratio, reach_left, reach_right,
                   total_size, chunk_size, overlap, hop_size, i, i_set, chunks,
                   y_size, y_final, pastes, pc, err, orig_len>>
    /\ UNCHANGED <<has_bottleneck, log, prev, stages, prep>>

(* the type tags a section can carry; "unknown" is any unrecognised string *)
EncoderTags == EncoderTypes \cup {"None", "unknown"}

DecoderTags == DecoderTypes \cup {"None", "unknown"}

DiffusionTags == DiffusionTypes \cup {"None", "unknown"}

Configs ==
    [encoder : EncoderTags \cup {"absent"}, decoder : DecoderTags \cup {"absent"},
     diffusion : DiffusionTags \cup {"absent"},
     latent_dim : BOOLEAN, downsampling_ratio : BOOLEAN,
     io_channels : BOOLEAN, sample_rate : BOOLEAN,
     pretransform : BOOLEAN, bottleneck : BOOLEAN]

(* a config section handed to create_encoder/decoder_from_config directly *)
SectionConfig(enc, dec) ==
    [encoder |-> enc, decoder |-> dec, diffusion |-> "absent",
     latent_dim |-> TRUE, downsampling_ratio |-> TRUE, io_channels |-> TRUE,
     sample_rate |-> TRUE, pretransform |-> FALSE, bottleneck |-> FALSE]

FactoryCall(fn, cfg) ==
    [pc |-> "call", fn |-> fn, cfg |-> cfg, built |-> <<>>, err |-> NoErr]

InitFactory ==
    /\ CallIdle /\ stages = Idle /\ prep = Idle
    /\ \/ \E t \in EncoderTags :
             factory = FactoryCall("create_encoder_from_config",
                                   SectionConfig(t, "absent"))
       \/ \E t \in DecoderTags :
             factory = FactoryCall("create_decoder_from_config",
                                   SectionConfig("absent", t))
       \/ \E cfg \in Configs :
             /\ cfg.diffusion = "absent"
             /\ factory = FactoryCall("create_autoencoder_from_config", cfg)
       \/ \E cfg \in Configs :
             factory = FactoryCall("create_diffAE_from_config", cfg)

NextFactory ==
    \/ Factory_CreateEncoder \/ Factory_CreateDecoder
    \/ Factory_CreateAutoencoder \/ Factory_CreateDiffAE

SpecFactory == InitFactory /\ [][NextFactory]_vars

-----------------------------------------------------------------------------
(* AudioAutoencoder.encode and AudioAutoencoder.decode on a batch. A batch is
   a sequence of items; an item carries its position in the input batch and
   the stages it has been through. A stage treats the items of its argument
   independently of each other. *)

MaxBatch == 3

Batch(n) == [k \in 1..n |-> [id |-> k - 1, hist |-> <<>>]]

Ids(xs) == [k \in 1..Len(xs) |-> xs[k].id]

(* stage(xs) *)
Apply(st, xs) ==
    [k \in 1..Len(xs) |-> [id |-> xs[k].id, hist |-> Append(xs[k].hist, st)]]

(* audio[i : i + 1] *)
BatchItem(xs, k) == SubSeq(xs, k + 1, k + 1)

(* one invocation of a collaborator, on the items given *)
Invocation(st, xs) == [stage |-> st, items |-> Ids(xs)]

(* stage(audio) *)
Batched(st, xs) == [calls |-> <<Invocation(st, xs)>>, out |-> Apply(st, xs)]

(* for i in range(audio.shape[0]): outs.append(stage(audio[i : i + 1]));
   torch.cat(outs, dim=0) *)
PerItem(st, xs) ==
    [calls |-> [k \in 1..Len(xs) |-> Invocation(st, BatchItem(xs, k - 1))],
     out |-> [k \in 1..Len(xs) |-> Apply(st, BatchItem(xs, k - 1))[1]]]

(* variant: the absent collaborator changes the signal *)
Skip_changed(xs) == [calls |-> <<>>, out |-> Apply("None", xs)]

(* the stage is not run *)
Skip(xs) == [calls |-> <<>>, out |-> xs]

(* if iterate_batch: ... else: ... *)
RunStage(st, xs, iterate_batch) ==
    IF iterate_batch THEN PerItem(st, xs) ELSE Batched(st, xs)

(* AudioAutoencoder.encode *)
encode(cfg, xs, iterate_batch) ==
    LET p == IF cfg.pretransform /\ ~cfg.skip_pretransform
             THEN RunStage("pretransform.encode", xs, iterate_batch)
             ELSE Skip(xs)
        e == IF cfg.encoder
             THEN RunStage("encoder", p.out, iterate_batch)
             ELSE Skip(p.out)
        b == IF cfg.bottleneck
             THEN Batched("bottleneck.encode", e.out)
             ELSE Skip(e.out)
    IN  [calls |-> p.calls \o e.calls \o b.calls, out |-> b.out]

(* variant: the pretransform is inverted before the decoder runs *)
decode_pretransform_first(cfg, xs, iterate_batch) ==
    LET b == IF cfg.bottleneck
             THEN RunStage("bottleneck.decode", xs, iterate_batch)
             ELSE Skip(xs)
        p == IF cfg.pretransform
             THEN RunStage("pretransform.decode", b.out, iterate_batch)
             ELSE Skip(b.out)
        d == RunStage("decoder", p.out, iterate_batch)
        t == IF cfg.soft_clip THEN Apply("tanh", d.out) ELSE d.out
    IN  [calls |-> b.calls \o p.calls \o d.calls, out |-> t]

(* AudioAutoencoder.decode *)
decode(cfg, xs, iterate_batch) ==
    LET b == IF cfg.bottleneck
             THEN RunStage("bottleneck.decode", xs, iterate_batch)
             ELSE Skip(xs)
        d == RunStage("decoder", b.out, iterate_batch)
        p == IF cfg.pretransform
             THEN RunStage("pretransform.decode", d.out, iterate_batch)
             ELSE Skip(d.out)
        t == IF cfg.soft_clip THEN Apply("tanh", p.out) ELSE p.out
    IN  [calls |-> b.calls \o d.calls \o p.calls, out |-> t]

Stages_Encode ==
    /\ stages.pc = "call" /\ stages.op = "encode"
    /\ LET r == encode(stages.cfg, Batch(stages.batch), stages.iterate_batch)
       IN  stages' = [stages EXCEPT !.pc = "done", !.calls = r.calls, !.out = r.out]
    /\ UNCHANGED <<call, args, downsampling_ratio, reach_left, reach_right,
                   total_size, chunk_size, overlap, hop_size, i, i_set, chunks,
                   y_size, y_final, pastes, pc, err, orig_len>>
    /\ UNCHANGED <<has_bottleneck, log, prev, factory, prep>>

Stages_Decode ==
    /\ stages.pc = "call" /\ stages.op = "decode"
    /\ LET r == decode(stages.cfg, Batch(stages.batch), stages.iterate_batch)
       IN  stages' = [stages EXCEPT !.pc = "done", !.calls = r.calls, !.out = r.out]
    /\ UNCHANGED <<call, args, downsampling_ratio, reach_left, reach_right,
                   total_size, chunk_size, overlap, hop_size, i, i_set, chunks,
                   y_size, y_final, pastes, pc, err, orig_len>>
    /\ UNCHANGED <<has_bottleneck, log, prev, factory, prep>>

(* which collaborators the autoencoder has and the flags of the call; decode
   has no skip_pretransform and always has a decoder, encode no soft_clip *)
StageConfigs(op) ==
    {c \in [pretransform : BOOLEAN, skip_pretransform : BOOLEAN,
            encoder : BOOLEAN, bottleneck : BOOLEAN, soft_clip : BOOLEAN] :
        IF op = "encode" THEN ~c.soft_clip
        ELSE ~c.skip_pretransform /\ c.encoder}

InitStages ==
    /\ CallIdle /\ factory = Idle /\ prep = Idle
    /\ \E op \in {"encode", "decode"}, it \in BOOLEAN, n \in 1..MaxBatch :
          \E c \in StageConfigs(op) :
              stages = [pc |-> "call", op |-> op, iterate_batch |-> it,
                        batch |-> n, cfg |-> c, calls |-> <<>>, out |-> <<>>]

NextStages == Stages_Encode \/ Stages_Decode

SpecStages == InitStages /\ [][NextStages]_vars

-----------------------------------------------------------------------------
(* preprocess_audio_list_for_encoder. An item is abstracted to its length
   after the resampling loop; channels do not enter the padded length. *)

MaxItems == 2

MaxLen == 6

MaxDownsampling == 3

MaxDiffusionDownsampling == 2

(* self.min_length, as set by the constructor of the model's class *)
min_length(kind, ratio, diffusion_ratio) ==
    IF kind = "DiffusionAutoencoder" THEN ratio * diffusion_ratio ELSE ratio

(* max_length = 0; if audio.shape[-1] > max_length: max_length = ... *)
max_length(lens) ==
    LET S == {lens[k] : k \in 1..Len(lens)} \cup {0}
    IN  CHOOSE x \in S : \A y \in S : y <= x

(* variant: a whole block is added to a length that already is a multiple *)
PaddedLength_extra(mx, m) == mx + (m - (mx % m))

(* max_length + (self.min_length - (max_length % self.min_length))
   % self.min_length *)
PaddedLength(mx, m) == mx + ((m - (mx % m)) % m)

(* the whole call: the target_length each item is handed to prepare_audio
   with, in item order *)
Prep_PreprocessList ==
    /\ prep.pc = "call"
    /\ LET mx == max_length(prep.lens)
           p == PaddedLength(mx, prep.min_length)
       IN  prep' = [prep EXCEPT !.pc = "done",
                                !.max_length = mx,
                                !.padded_audio_length = p,
                                !.target_length = [k \in 1..Len(prep.lens) |-> p]]
    /\ UNCHANGED <<call, args, downsampling_ratio, reach_left, reach_right,
                   total_size, chunk_size, overlap, hop_size, i, i_set, chunks,
                   y_size, y_final, pastes, pc, err, orig_len>>
    /\ UNCHANGED <<has_bottleneck, log, prev, factory, stages>>

(* the lists of n item lengths *)
Lengths(n) == [1..n -> 0..MaxLen]

InitPrep ==
    /\ CallIdle /\ factory = Idle /\ stages = Idle
    /\ \E kind \in {"AudioAutoencoder", "DiffusionAutoencoder"},
          ratio \in 1..MaxDownsampling, dr \in 1..MaxDiffusionDownsampling,
          n \in 1..MaxItems :
          \E lens \in Lengths(n) :
              /\ kind = "AudioAutoencoder" => dr = 1
              /\ prep = [pc |-> "call", kind |-> kind, lens |-> lens,
                         min_length |-> min_length(kind, ratio, dr),
                         max_length |-> 0, padded_audio_length |-> 0,
                         target_length |-> <<>>]

NextPrep == Prep_PreprocessList

SpecPad == InitPrep /\ [][NextPrep]_vars

-----------------------------------------------------------------------------
(* DiffusionAutoencoder.decode. The latents are abstracted to their length
   and the stages they have been through; a frame is one activation of the
   method, depth counts the activations below the current one. *)

(* stands for the interpreter's recursion limit *)
MaxRecursion == 3

DiffConfigs == [bottleneck : BOOLEAN, decoder : BOOLEAN, pretransform : BOOLEAN]

(* stage(latents): same length, one more stage in the history *)
Through(st, x) == [len |-> x.len, hist |-> Append(x.hist, st)]

(* if self.bottleneck is not None: latents = self.bottleneck.decode(latents) *)
Diff_AfterBottleneck(cfg, x) ==
    IF cfg.bottleneck THEN Through("bottleneck.decode", x) ELSE x

(* F.interpolate(latents, size=upsampled_length) when the lengths differ *)
Diff_Interpolate(x, upsampled_length) ==
    IF x.len # upsampled_length
    THEN [len |-> upsampled_length, hist |-> Append(x.hist, "interpolate")]
    ELSE x

(* entry of an activation, up to the sampler or, with a decoder, to
   latents = self.decode(latents): the next activation of this method *)
Diff_Enter ==
    /\ stages.pc = "call" /\ stages.op = "diffusion_decode"
    /\ LET cfg == stages.cfg
           x == Diff_AfterBottleneck(cfg, stages.latents)
           cs == stages.calls \o (IF cfg.bottleneck THEN <<"bottleneck.decode">> ELSE <<>>)
           up == stages.latents.len * stages.ratio
       IN  IF ~cfg.decoder
           THEN stages' = [stages EXCEPT !.pc = "sample", !.latents = x,
                                         !.calls = cs, !.upsampled_length = up]
           ELSE IF stages.depth < MaxRecursion
           THEN stages' = [stages EXCEPT !.pc = "call", !.latents = x,
                                         !.calls = cs, !.upsampled_length = up,
                                         !.depth = stages.depth + 1]
           ELSE stages' = [stages EXCEPT !.pc = "error", !.latents = x,
                                         !.calls = cs, !.upsampled_length = up,
                                         !.err = "RecursionError"]
    /\ UNCHANGED <<call, args, downsampling_ratio, reach_left, reach_right,
                   total_size, chunk_size, overlap, hop_size, i, i_set, chunks,
                   y_size, y_final, pastes, pc, err, orig_len>>
    /\ UNCHANGED <<has_bottleneck, log, prev, factory, prep>>

(* interpolate, sample, inverse pretransform, return; only the outermost
   activation gets here, an inner one never returns *)
Diff_Sample ==
    /\ stages.pc = "sample" /\ stages.op = "diffusion_decode"
    /\ stages.depth = 0
    /\ LET cond == Diff_Interpolate(stages.latents, stages.upsampled_length)
           decoded == [len |-> stages.upsampled_length, hist |-> <<"sample">>]
       IN  stages' = [stages EXCEPT
                        !.pc = "done",
                        !.cond = cond,
                        !.calls = stages.calls \o <<"sample">>
                                  \o (IF stages.cfg.pretransform
                                      THEN <<"pretransform.decode">> ELSE <<>>),
                        !.out = IF stages.cfg.pretransform
                                THEN Through("pretransform.decode", decoded)
                                ELSE decoded]
    /\ UNCHANGED <<call, args, downsampling_ratio, reach_left, reach_right,
                   total_size, chunk_size, overlap, hop_size, i, i_set, chunks,
                   y_size, y_final, pastes, pc, err, orig_len>>
    /\ UNCHANGED <<has_bottleneck, log, prev, factory, prep>>

NoLatents == [len |-> 0, hist |-> <<>>]

InitDiffusion ==
    /\ CallIdle /\ factory = Idle /\ prep = Idle
    /\ \E c \in DiffConfigs, n \in 1..MaxLen, r \in 1..MaxDownsampling :
          stages = [pc |-> "call", op |-> "diffusion_decode", cfg |-> c,
                    ratio |-> r, input |-> [len |-> n, hist |-> <<>>],
                    latents |-> [len |-> n, hist |-> <<>>],
                    upsampled_length |-> 0, depth |-> 0, calls |-> <<>>,
                    cond |-> NoLatents, out |-> NoLatents, err |-> ""]

NextDiffusion == Diff_Enter \/ Diff_Sample

SpecDiffusion == InitDiffusion /\ [][NextDiffusion]_vars

(* encode, decode and DiffusionAutoencoder.decode calls *)
InitOptional == InitStages \/ InitDiffusion

NextOptional == NextStages \/ NextDiffusion

SpecOptional == InitOptional /\ [][NextOptional]_vars

-----------------------------------------------------------------------------
(* create_encoder_from_config / create_decoder_from_config called more than
   once on one config object. Of config["config"] the model keeps the
   "ratios" entry, the only one a factory touches. *)

MaxRatios == 3

MaxFactoryCalls == 2

RatioValues == {2, 4}

(* seanet_encoder_config.get("ratios", [2, 2, 2, 2, 2]) *)
RatiosOrDefault(c) == IF c.has_ratios THEN c.ratios ELSE <<2, 2, 2, 2, 2>>

(* list(reversed(...)) *)
Reversed(q) == [k \in 1..Len(q) |-> q[Len(q) + 1 - k]]

(* config["config"] after create_encoder_from_config: the seanet branch
   assigns the reversed list to seanet_encoder_config["ratios"], and
   seanet_encoder_config is encoder_config["config"] itself *)
EncoderConfigAfter(type, c) ==
    IF type = "seanet"
    THEN [has_ratios |-> TRUE, ratios |-> Reversed(RatiosOrDefault(c))]
    ELSE c

(* the keyword arguments the encoder is constructed with *)
EncoderParams(type, c) == EncoderConfigAfter(type, c)

(* create_decoder_from_config passes decoder_config["config"] as it is *)
DecoderConfigAfter(type, c) == c

DecoderParams(type, c) == c

Factory_EncoderAgain ==
    /\ factory.pc = "shared" /\ factory.fn = "create_encoder_from_config"
    /\ Len(factory.params) < MaxFactoryCalls
    /\ factory' = [factory EXCEPT
                     !.config = EncoderConfigAfter(factory.type, factory.config),
                     !.params = Append(factory.params,
                                       EncoderParams(factory.type, factory.config))]
    /\ UNCHANGED <<call, args, downsampling_ratio, reach_left, reach_right,
                   total_size, chunk_size, overlap, hop_size, i, i_set, chunks,
                   y_size, y_final, pastes, pc, err, orig_len>>
    /\ UNCHANGED <<has_bottleneck, log, prev, stages, prep>>

Factory_DecoderAgain ==
    /\ factory.pc = "shared" /\ factory.fn = "create_decoder_from_config"
    /\ Len(factory.params) < MaxFactoryCalls
    /\ factory' = [factory EXCEPT
                     !.config = DecoderConfigAfter(factory.type, factory.config),
                     !.params = Append(factory.params,
                                       DecoderParams(factory.type, factory.config))]
    /\ UNCHANGED <<call, args, downsampling_ratio, reach_left, reach_right,
                   total_size, chunk_size, overlap, hop_size, i, i_set, chunks,
                   y_size, y_final, pastes, pc, err, orig_len>>
    /\ UNCHANGED <<has_bottleneck, log, prev, stages, prep>>

(* the lists of ratios of length 1..MaxRatios *)
RatioLists == UNION {[1..n -> RatioValues] : n \in 1..MaxRatios}

SharedConfigs ==
    {[has_ratios |-> FALSE, ratios |-> <<>>]}
        \cup {[has_ratios |-> TRUE, ratios |-> q] : q \in RatioLists}

InitShared ==
    /\ CallIdle /\ stages = Idle /\ prep = Idle
    /\ \E fn \in {"create_encoder_from_config", "create_decoder_from_config"},
          t \in EncoderTypes, c \in SharedConfigs :
          factory = [pc |-> "shared", fn |-> fn, type |-> t, original |-> c,
                     config |-> c, params |-> <<>>]

NextShared == Factory_EncoderAgain \/ Factory_DecoderAgain

SpecShared == InitShared /\ [][NextShared]_vars

-----------------------------------------------------------------------------
(* The keyword options of encode_audio / decode_audio: what each
   self.encode / self.decode invocation receives, and the form of the
   value returned. *)

MaxWindows == 3

(* the options encode declares, with their defaults *)
DefaultOptions ==
    [return_info |-> FALSE, skip_pretransform |-> FALSE, iterate_batch |-> FALSE]

(* **kwargs of the caller *)
Kwargs ==
    [return_info : BOOLEAN, skip_pretransform : BOOLEAN, iterate_batch : BOOLEAN]

(* encode returns (latents, info) under return_info and latents otherwise;
   decode returns the decoded tensor *)
ResultForm(op, opts) ==
    IF op = "encode_audio" /\ opts.return_info THEN "tensor_info" ELSE "tensor"

(* return self.encode(audio, **kwargs) / return self.decode(latents, **kwargs) *)
Kwargs_Unchunked ==
    /\ stages.pc = "call" /\ ~stages.chunked
    /\ stages' = [stages EXCEPT !.pc = "done",
                                !.invocations = <<stages.kwargs>>,
                                !.form = ResultForm(stages.op, stages.kwargs)]
    /\ UNCHANGED <<call, args, downsampling_ratio, reach_left, reach_right,
                   total_size, chunk_size, overlap, hop_size, i, i_set, chunks,
                   y_size, y_final, pastes, pc, err, orig_len>>
    /\ UNCHANGED <<has_bottleneck, log, prev, factory, prep>>

(* y_chunk = self.encode(x_chunk) / y_chunk = self.decode(x_chunk) *)
Kwargs_Chunk ==
    /\ stages.pc = "call" /\ stages.chunked
    /\ Len(stages.invocations) < stages.num_chunks
    /\ stages' = [stages EXCEPT
                    !.invocations = Append(stages.invocations, DefaultOptions)]
    /\ UNCHANGED <<call, args, downsampling_ratio, reach_left, reach_right,
                   total_size, chunk_size, overlap, hop_size, i, i_set, chunks,
                   y_size, y_final, pastes, pc, err, orig_len>>
    /\ UNCHANGED <<has_bottleneck, log, prev, factory, prep>>

(* return y_final *)
Kwargs_Return ==
    /\ stages.pc = "call" /\ stages.chunked
    /\ Len(stages.invocations) = stages.num_chunks
    /\ stages' = [stages EXCEPT !.pc = "done", !.form = "tensor"]
    /\ UNCHANGED <<call, args, downsampling_ratio, reach_left, reach_right,
                   total_size, chunk_size, overlap, hop_size, i, i_set, chunks,
                   y_size, y_final, pastes, pc, err, orig_len>>
    /\ UNCHANGED <<has_bottleneck, log, prev, factory, prep>>

InitKwargs ==
    /\ CallIdle /\ factory = Idle /\ prep = Idle
    /\ \E op \in {"encode_audio", "decode_audio"}, ck \in BOOLEAN,
          kw \in Kwargs, n \in 1..MaxWindows :
          stages = [pc |-> "call", op |-> op, chunked |-> ck, kwargs |-> kw,
                    num_chunks |-> n, invocations |-> <<>>, form |-> "none"]

NextKwargs == Kwargs_Unchunked \/ Kwargs_Chunk \/ Kwargs_Return

SpecKwargs == InitKwargs /\ [][NextKwargs]_vars

----------------------------------------------------------------------------
(* Properties *)

(* the signal length in latent frames *)
Frames == IF call = "encode_audio" THEN total_size \div downsampling_ratio ELSE total_size

(* a chunked call with 0 <= overlap < chunk_size <= total_length *)
Valid ==
    /\ args.chunked
    /\ 0 <= args.overlap /\ args.overlap < args.chunk_size
    /\ args.chunk_size <= Frames

(* the final window lies on the hop grid *)
OnGrid == (Frames - args.chunk_size) % (args.chunk_size - args.overlap) = 0

Stitching == pc \in {"stitch", "done"}

(* the output indices paste k assigned *)
Written(k) ==
    LET t == PySlice(pastes[k].t_start, pastes[k].t_end, y_size)
    IN  {p \in 0..(y_size - 1) : p >= t.lo /\ p < t.hi}

WriteCount(p) == Cardinality({k \in 1..Len(pastes) : p \in Written(k)})

(* what the non-chunked call returns for the same input *)
Reference == IF call = "encode_audio" THEN EncodeOut(Whole) ELSE DecodeOut(Whole)

(* C1: after the stitching loop of a chunked call with
   0 <= overlap < chunk_size <= total_length, every index of
   [0, output_length) has been written at least once and none still holds
   the zero of the initial buffer *)
C1_NoGap ==
    (pc = "done" /\ Valid) =>
        \A p \in 0..(y_size - 1) : WriteCount(p) >= 1 /\ y_final[p] # <<>>

C1_Witness ==
    /\ pc = "done" /\ Valid /\ call = "decode_audio"
    /\ Len(chunks) >= 3 /\ ~OnGrid /\ args.overlap % 2 = 1
    /\ \A p \in 0..(y_size - 1) : WriteCount(p) >= 1

(* C2 as stated: the trimmed target ranges are pairwise disjoint, no output
   index is written more than once *)
C2_NoDoubleWrite ==
    (Stitching /\ Valid) => \A p \in 0..(y_size - 1) : WriteCount(p) <= 1

(* C2 amended: the trimmed target ranges are pairwise disjoint when overlap
   is even and the final window lies on the hop grid; in every valid call no
   output index is written more than twice *)
C2_DisjointOnGridEven ==
    (Stitching /\ Valid) =>
        /\ \A p \in 0..(y_size - 1) : WriteCount(p) <= 2
        /\ (OnGrid /\ args.overlap % 2 = 0) =>
               \A p \in 0..(y_size - 1) : WriteCount(p) <= 1

C2_Witness ==
    /\ pc = "done" /\ Valid /\ OnGrid
    /\ args.overlap = 2 /\ Len(chunks) >= 3
    /\ \A p \in 0..(y_size - 1) : WriteCount(p) = 1

(* C3 as stated: with overlap at least the receptive field (the span of
   input frames an output position reads), the chunked call returns at every
   index what the non-chunked call returns *)
C3_EquivalenceSpan ==
    (pc = "done" /\ Valid /\ args.overlap >= reach_left + reach_right + 1) =>
        y_final = Reference

(* C3 amended: with overlap // 2 at least the number of frames an output
   position reads to either side, the chunked call returns at every index
   what the non-chunked call returns *)
C3_EquivalenceReach ==
    (pc = "done" /\ Valid /\ args.overlap \div 2 >= Max(reach_left, reach_right)) =>
        y_final = Reference

C3_Witness ==
    /\ pc = "done" /\ Valid /\ Len(chunks) >= 3 /\ ~OnGrid
    /\ reach_left = 1 /\ reach_right = 1 /\ args.overlap \div 2 = 1
    /\ y_final = Reference

(* C4: the last window of a valid chunked call starts at
   total_length - chunk_size and ends exactly at total_length *)
C4_RightAligned ==
    (Stitching /\ Valid) =>
        LET w == chunks[Len(chunks)]
        IN  /\ w.start = total_size - chunk_size
            /\ w.start + w.len = total_size

C4_Witness ==
    /\ Stitching /\ Valid /\ ~OnGrid /\ Len(chunks) >= 3
    /\ chunks[Len(chunks)].start = total_size - chunk_size
    /\ chunks[Len(chunks) - 1].start + hop_size > total_size - chunk_size

(* the call of the concrete scenario *)
IsScenario ==
    /\ call = "encode_audio" /\ downsampling_ratio = 10 /\ total_size = 1000
    /\ args = [chunked |-> TRUE, overlap |-> 8, chunk_size |-> 32]

(* latent starts of the windows *)
LatentStarts == [k \in 1..Len(chunks) |-> chunks[k].start \div downsampling_ratio]

Contiguous == \A p \in 0..(y_size - 1) : WriteCount(p) >= 1

(* C5 as stated: the scenario generates windows at latent starts
   0, 24, 48, 72 and a final one at 68 and performs exactly 5 writes forming
   a contiguous [0, 100) *)
C5_ScenarioFiveWrites ==
    (IsScenario /\ pc = "done") =>
        /\ hop_size = 24 * downsampling_ratio
        /\ LatentStarts = <<0, 24, 48, 72, 68>>
        /\ Len(pastes) = 5
        /\ y_size = 100 /\ Contiguous

(* C5 amended: the scenario uses hop_size 24 latent frames, generates
   windows at latent starts 0, 24, 48 and a final right-aligned one at 68, and
   performs exactly 4 writes that together form a contiguous [0, 100) *)
C5_ScenarioFourWrites ==
    (IsScenario /\ pc = "done") =>
        /\ hop_size = 24 * downsampling_ratio
        /\ LatentStarts = <<0, 24, 48, 68>>
        /\ Len(pastes) = 4
        /\ y_size = 100 /\ Contiguous

C5_Witness ==
    /\ IsScenario /\ pc = "done"
    /\ [k \in 1..Len(pastes) |-> <<pastes[k].t_start, pastes[k].t_end>>]
           = << <<0, 28>>, <<28, 52>>, <<52, 76>>, <<72, 100>> >>

(* C6: encode_audio followed by decode_audio, each chunked or not, returns
   audio of the length L the encode was given *)
C6_RoundTripLength ==
    (pc = "done" /\ call = "decode_audio" /\ orig_len > 0) =>
        TLen(y_final) = orig_len

C6_Witness ==
    /\ pc = "done" /\ call = "decode_audio" /\ orig_len > 0
    /\ args.chunked /\ Len(chunks) >= 2 /\ downsampling_ratio > 1
    /\ TLen(y_final) = orig_len

(* C7: the buffer a chunked call allocates has length total_length // R for
   encode and total_length * R for decode, whatever chunk_size and overlap,
   which is the length the non-chunked call returns *)
C7_BufferLength ==
    (Stitching /\ args.chunked) =>
        /\ TLen(y_final) = IF call = "encode_audio"
                           THEN total_size \div downsampling_ratio
                           ELSE total_size * downsampling_ratio
        /\ TLen(y_final) = TLen(Reference)

C7_Witness ==
    /\ pc = "stitch" /\ args.chunked /\ Len(pastes) = 0
    /\ call = "encode_audio" /\ downsampling_ratio = 2
    /\ TLen(y_final) * 2 = total_size

(* C8: a chunk i that is neither first nor last is pasted into
   [i*hop + ol, i*hop + chunk_size - ol) from [ol, chunk_len - ol) of its
   codec output, ol = overlap // 2 frames for encode and (overlap // 2) * R
   samples for decode *)
C8_InteriorTrim ==
    \A k \in 1..Len(pastes) :
        LET ps == pastes[k]
            R == downsampling_ratio
            hop == args.chunk_size - args.overlap
        IN  (ps.i > 0 /\ ps.i < Len(chunks) - 1) =>
                IF call = "encode_audio"
                THEN LET ol == args.overlap \div 2
                     IN  /\ ps.t_start = ps.i * hop + ol
                         /\ ps.t_end = ps.i * hop + args.chunk_size - ol
                         /\ ps.chunk_start = ol
                         /\ ps.chunk_end = ps.y_chunk_len - ol
                ELSE LET ol == (args.overlap \div 2) * R
                     IN  /\ ps.t_start = ps.i * hop * R + ol
                         /\ ps.t_end = ps.i * hop * R + args.chunk_size * R - ol
                         /\ ps.chunk_start = ol
                         /\ ps.chunk_end = ps.y_chunk_len - ol

C8_Witness ==
    /\ pc = "done" /\ Valid /\ call = "decode_audio" /\ downsampling_ratio = 2
    /\ args.overlap = 3 /\ Len(pastes) >= 3
    /\ pastes[2].chunk_start = 2 /\ pastes[2].t_start = 2 * hop_size + 2

(* C9: the first chunk is written from output index 0 reading from source
   index 0, the last chunk is written up to output_length reading up to the
   end of its codec output, and a single chunk is not trimmed at all *)
C9_GlobalEdges ==
    \A k \in 1..Len(pastes) :
        LET ps == pastes[k]
        IN  /\ ps.i = 0 => (ps.t_start = 0 /\ ps.chunk_start = 0)
            /\ ps.i = Len(chunks) - 1 =>
                   (ps.t_end = y_size /\ ps.chunk_end = ps.y_chunk_len)

C9_Witness ==
    /\ pc = "done" /\ Valid /\ args.overlap >= 2 /\ Len(pastes) >= 2
    /\ pastes[1].t_start = 0 /\ pastes[1].t_end < pastes[1].y_chunk_len
    /\ pastes[Len(pastes)].t_end = y_size
    /\ pastes[Len(pastes)].chunk_start > 0

(* a chunked call with overlap = 0 and chunk_size <= total_length *)
ValidZero == args.chunked /\ args.overlap = 0 /\ args.chunk_size <= Frames

(* C10 as stated: a chunked call with overlap = 0 does not raise and writes
   every index of [0, output_length) exactly once *)
C10_ZeroOverlapExactlyOnce ==
    ValidZero =>
        /\ pc # "error"
        /\ pc = "done" => \A p \in 0..(y_size - 1) : WriteCount(p) = 1

(* C10 amended: a chunked call with overlap = 0 does not raise and writes
   every index of [0, output_length) at least once; exactly once when
   total_length is a multiple of chunk_size, and otherwise the indices the
   final right-aligned window shares with the window before it twice *)
C10_ZeroOverlapCovers ==
    ValidZero =>
        /\ pc # "error"
        /\ pc = "done" =>
              /\ \A p \in 0..(y_size - 1) : WriteCount(p) \in {1, 2}
              /\ Frames % args.chunk_size = 0 =>
                     \A p \in 0..(y_size - 1) : WriteCount(p) = 1
              /\ Frames % args.chunk_size # 0 =>
                     \E p \in 0..(y_size - 1) : WriteCount(p) = 2

C10_Witness ==
    /\ ValidZero /\ pc = "done" /\ Len(chunks) >= 3
    /\ Frames % args.chunk_size = 0
    /\ \A p \in 0..(y_size - 1) : WriteCount(p) = 1

IsCodecCall(e) == e.stage \in {"encoder", "decoder"}

IsBottleneckCall(e) == e.stage \in {"bottleneck.encode", "bottleneck.decode"}

CodecCalls == SelectSeq(log, IsCodecCall)

BottleneckCalls == SelectSeq(log, IsBottleneckCall)

CodecStage == IF call = "encode_audio" THEN "encoder" ELSE "decoder"

BottleneckStage == IF call = "encode_audio" THEN "bottleneck.encode" ELSE "bottleneck.decode"

(* C11 as stated: in chunked mode the codec is invoked exactly once, for all
   windows, before the stitching loop begins, and the loop invokes no codec *)
C11_SingleBatchedInvocation ==
    (args.chunked /\ Stitching) =>
        /\ Len(CodecCalls) = 1
        /\ CodecCalls[1].chunk = -1

(* C11 amended: in chunked mode all windows are collected before the
   stitching loop begins, no codec invocation precedes the loop, and the loop
   invokes the codec once per window, on window i in iteration i, right
   before that window's paste *)
C11_InvocationPerWindow ==
    (args.chunked /\ Stitching) =>
        /\ Len(CodecCalls) = Len(pastes)
        /\ \A k \in 1..Len(CodecCalls) :
               CodecCalls[k] = StageCall(CodecStage, chunks[k], k - 1)

C11_Witness ==
    /\ args.chunked /\ pc = "done" /\ Valid /\ Len(chunks) >= 3
    /\ Len(CodecCalls) = Len(chunks)
    /\ CodecCalls[3].start = chunks[3].start /\ CodecCalls[3].chunk = 2

(* C12 as stated: in chunked mode the bottleneck is applied once, to the
   whole signal and outside the chunk loop, never per window *)
C12_BottleneckOutsideChunks ==
    (args.chunked /\ has_bottleneck /\ pc = "done") =>
        /\ Len(BottleneckCalls) = 1
        /\ BottleneckCalls[1] = StageCall(BottleneckStage, Whole, -1)

(* C12 amended: in chunked mode the bottleneck, when there is one, is
   applied once per window inside that window's encode/decode call of the
   stitching loop - on encode right after the encoder and before the window
   is pasted, on decode right before the decoder - and is not applied
   outside the loop *)
C12_BottleneckPerWindow ==
    (args.chunked /\ Stitching) =>
        /\ Len(BottleneckCalls) = IF has_bottleneck THEN Len(pastes) ELSE 0
        /\ has_bottleneck =>
              \A k \in 1..Len(pastes) :
                  IF call = "encode_audio"
                  THEN /\ log[2 * k - 1] = StageCall("encoder", chunks[k], k - 1)
                       /\ log[2 * k] = StageCall("bottleneck.encode", chunks[k], k - 1)
                  ELSE /\ log[2 * k - 1] = StageCall("bottleneck.decode", chunks[k], k - 1)
                       /\ log[2 * k] = StageCall("decoder", chunks[k], k - 1)

C12_Witness ==
    /\ args.chunked /\ has_bottleneck /\ pc = "done" /\ Valid
    /\ call = "decode_audio" /\ Len(chunks) >= 3
    /\ Len(BottleneckCalls) = Len(chunks)
    /\ log[5].stage = "bottleneck.decode" /\ log[5].start = chunks[3].start

(* a chunked decode_audio call that follows a chunked encode_audio call with
   the same chunk_size and overlap, on the latent that call returned *)
SameParameters ==
    /\ call = "decode_audio" /\ orig_len > 0
    /\ args.chunked /\ prev.args = args

(* the windows of the decode call are those of the encode call, scaled *)
SameWindows ==
    /\ Len(chunks) = Len(prev.chunks)
    /\ \A k \in 1..Len(chunks) :
           /\ prev.chunks[k].start = downsampling_ratio * chunks[k].start
           /\ prev.chunks[k].len = downsampling_ratio * chunks[k].len

(* paste k of the decode call is paste k of the encode call, scaled *)
SamePaste(k) ==
    /\ pastes[k].t_start = downsampling_ratio * prev.pastes[k].t_start
    /\ pastes[k].t_end = downsampling_ratio * prev.pastes[k].t_end
    /\ pastes[k].chunk_start = downsampling_ratio * prev.pastes[k].chunk_start
    /\ pastes[k].chunk_end = downsampling_ratio * prev.pastes[k].chunk_end

(* C13: for any latent length n, chunk_size, overlap and ratio R, chunked
   decode_audio generates the same number of windows at the same latent
   starts as chunked encode_audio on n * R samples, and every decode write
   range and source range is R times the encode range *)
C13_SymmetryAnyParameters ==
    SameParameters =>
        /\ pc # "error"
        /\ Stitching => SameWindows
        /\ Stitching => \A k \in 1..Len(pastes) : SamePaste(k)

(* the symmetry does hold between calls with overlap < chunk_size, where the
   hop is positive *)
SymmetryPositiveHop ==
    (SameParameters /\ args.overlap < args.chunk_size) =>
        /\ pc # "error"
        /\ Stitching => SameWindows
        /\ Stitching => \A k \in 1..Len(pastes) : SamePaste(k)

SymmetryPositiveHop_Reached ==
    /\ SameParameters /\ pc = "done" /\ Valid /\ ~OnGrid
    /\ downsampling_ratio = 2 /\ args.overlap >= 2
    /\ Len(chunks) >= 3 /\ Len(pastes) = Len(prev.pastes)
    /\ SamePaste(3)

(* C14: a chunked call whose chunk_size exceeds the signal length (with an
   overlap below chunk_size, so that nothing else is wrong with the call)
   never returns, and when it has failed it has failed with an assertion,
   before any codec invocation *)
C14_ChunkExceedsLengthAsserts ==
    (args.chunked /\ args.overlap < args.chunk_size /\ args.chunk_size > Frames) =>
        /\ pc # "done"
        /\ pc = "error" => (err = "AssertionError" /\ log = <<>>)

(* C15: every chunked call that returns an output buffer had a positive
   hop_size; a call with overlap >= chunk_size never returns *)
C15_PositiveHop ==
    (args.chunked /\ pc = "done") =>
        (hop_size > 0 /\ args.overlap < args.chunk_size)

(* the call has returned its output buffer to the caller *)
Returned == pc = "done"

(* C16: once the codec invocation of some chunk of a chunked call has
   failed, the call has ended in that error and returns nothing, however
   many chunks were pasted before *)
C16_NoPartialFailure ==
    (args.chunked /\ err = "CodecError") => (pc = "error" /\ ~Returned)

C16_Witness ==
    /\ args.chunked /\ err = "CodecError" /\ pc = "error"
    /\ Len(chunks) >= 3 /\ Len(pastes) = 2
    /\ \E p \in 0..(y_size - 1) : y_final[p] # <<>>

FactoryFinished == factory.pc \in {"done", "error"}

(* a config for create_autoencoder/diffAE_from_config that lacks one of
   model.latent_dim, model.downsampling_ratio, model.io_channels, sample_rate *)
MissingRequiredKey ==
    /\ factory.pc # "idle"
    /\ factory.fn \in {"create_autoencoder_from_config", "create_diffAE_from_config"}
    /\ ~(/\ factory.cfg.latent_dim /\ factory.cfg.downsampling_ratio
         /\ factory.cfg.io_channels /\ factory.cfg.sample_rate)

(* the encoder, decoder and diffusion sections of the config are accepted *)
SectionsAccepted ==
    /\ factory.cfg.encoder \in EncoderTypes
          \cup (IF factory.fn = "create_diffAE_from_config" THEN {"absent"} ELSE {})
    /\ factory.cfg.decoder \in DecoderTypes
          \cup (IF factory.fn = "create_diffAE_from_config" THEN {"absent"} ELSE {})
    /\ factory.fn = "create_diffAE_from_config" =>
          factory.cfg.diffusion \in DiffusionTypes \cup {"unknown"}

Range(q) == {q[k] : k \in 1..Len(q)}

(* C17 as stated: a config missing a required key makes the factory fail
   with a descriptive error before any encoder, decoder or diffusion module
   has been constructed *)
C17_FailsBeforeAnyModule ==
    (MissingRequiredKey /\ FactoryFinished) =>
        /\ factory.pc = "error"
        /\ factory.built = <<>>

(* C17 amended: a config missing a required key makes the factory fail, and
   neither pretransform, bottleneck nor the autoencoder object is constructed;
   when the encoder, decoder and diffusion sections are accepted the error
   is the AssertionError "<key> must be specified in model config" of the
   first missing key, raised after the encoder and decoder (and the
   diffusion module of a known type) have been constructed *)
C17_FailsBeforeAutoencoder ==
    (MissingRequiredKey /\ FactoryFinished) =>
        /\ factory.pc = "error"
        /\ Range(factory.built) \subseteq {"encoder", "decoder", "diffusion"}
        /\ SectionsAccepted =>
              /\ factory.err = MustBeSpecified(
                    IF ~factory.cfg.latent_dim THEN "latent_dim"
                    ELSE IF ~factory.cfg.downsampling_ratio THEN "downsampling_ratio"
                    ELSE IF ~factory.cfg.io_channels THEN "io_channels"
                    ELSE "sample_rate")
              /\ factory.cfg.encoder # "absent" => "encoder" \in Range(factory.built)
              /\ factory.cfg.decoder # "absent" => "decoder" \in Range(factory.built)
              /\ factory.cfg.diffusion \in DiffusionTypes =>
                    "diffusion" \in Range(factory.built)

C17_Witness ==
    /\ MissingRequiredKey /\ FactoryFinished /\ SectionsAccepted
    /\ factory.fn = "create_autoencoder_from_config"
    /\ factory.cfg.latent_dim /\ factory.cfg.downsampling_ratio
    /\ factory.cfg.io_channels /\ ~factory.cfg.sample_rate
    /\ factory.cfg.pretransform /\ factory.cfg.bottleneck
    /\ factory.built = <<"encoder", "decoder">>
    /\ factory.err.type = "AssertionError" /\ factory.err.arg = "sample_rate"

(* the call failed with an error that names the tag or the "type" field *)
TagError(tag) ==
    /\ factory.pc = "error"
    /\ factory.err.type \in {"AssertionError", "ValueError", "KeyError"}
    /\ factory.err.arg \in {tag, "type"}

(* the only thing wrong with the config of a create_diffAE_from_config call
   is the type tag of its diffusion section *)
OnlyDiffusionTagInvalid ==
    /\ factory.fn = "create_diffAE_from_config"
    /\ factory.cfg.encoder \in EncoderTypes \cup {"absent"}
    /\ factory.cfg.decoder \in DecoderTypes \cup {"absent"}
    /\ factory.cfg.latent_dim /\ factory.cfg.downsampling_ratio
    /\ factory.cfg.io_channels /\ factory.cfg.sample_rate
    /\ factory.cfg.diffusion \in {"None", "unknown"}

(* C18: a factory given a missing or unrecognised type tag fails with an
   error naming the invalid field or tag, and constructs nothing after the
   type selection *)
C18_InvalidTagNamed ==
    FactoryFinished =>
        /\ (factory.fn = "create_encoder_from_config"
              /\ factory.cfg.encoder \in {"None", "unknown"})
              => (TagError(factory.cfg.encoder) /\ factory.built = <<>>)
        /\ (factory.fn = "create_decoder_from_config"
              /\ factory.cfg.decoder \in {"None", "unknown"})
              => (TagError(factory.cfg.decoder) /\ factory.built = <<>>)
        /\ OnlyDiffusionTagInvalid
              => /\ TagError(factory.cfg.diffusion)
                 /\ Range(factory.built) \subseteq {"encoder", "decoder"}

(* the invocations of one stage, in the order they were made *)
CallsOf(st) == SelectSeq(stages.calls, LAMBDA c : c.stage = st)

(* the stage was invoked once per batch item, on a batch-of-one slice, in
   increasing item order *)
InvokedPerItem(st) ==
    /\ Len(CallsOf(st)) = stages.batch
    /\ \A k \in 1..stages.batch : CallsOf(st)[k].items = <<k - 1>>

(* the stage was invoked once, on the whole batch *)
InvokedOnBatch(st) ==
    /\ Len(CallsOf(st)) = 1
    /\ CallsOf(st)[1].items = Ids(Batch(stages.batch))

(* the collaborator stages the call runs *)
StagesRun ==
    IF stages.op = "encode"
    THEN (IF stages.cfg.pretransform /\ ~stages.cfg.skip_pretransform
          THEN {"pretransform.encode"} ELSE {})
         \cup (IF stages.cfg.encoder THEN {"encoder"} ELSE {})
         \cup (IF stages.cfg.bottleneck THEN {"bottleneck.encode"} ELSE {})
    ELSE (IF stages.cfg.bottleneck THEN {"bottleneck.decode"} ELSE {})
         \cup {"decoder"}
         \cup (IF stages.cfg.pretransform THEN {"pretransform.decode"} ELSE {})

(* what the same call returns with iterate_batch=False *)
BatchedResult ==
    IF stages.op = "encode"
    THEN encode(stages.cfg, Batch(stages.batch), FALSE).out
    ELSE decode(stages.cfg, Batch(stages.batch), FALSE).out

IterateDone == stages.pc = "done" /\ stages.iterate_batch

(* C19: with iterate_batch=True encode and decode invoke every collaborator
   stage they run once per batch item on a batch-of-one slice, in increasing
   item order, and the result has the batch size and item order of the
   iterate_batch=False call *)
C19_EveryStagePerItem ==
    IterateDone =>
        /\ \A st \in StagesRun : InvokedPerItem(st)
        /\ Ids(stages.out) = Ids(BatchedResult)

(* every stage but the bottleneck of encode is invoked per item; the
   bottleneck of encode is invoked once on the whole concatenated batch; the
   result equals that of the iterate_batch=False call *)
PerItemButEncodeBottleneck ==
    IterateDone =>
        /\ \A st \in StagesRun \ {"bottleneck.encode"} : InvokedPerItem(st)
        /\ "bottleneck.encode" \in StagesRun => InvokedOnBatch("bottleneck.encode")
        /\ {stages.calls[k].stage : k \in 1..Len(stages.calls)} = StagesRun
        /\ stages.out = BatchedResult

PerItemButEncodeBottleneck_Reached ==
    /\ IterateDone /\ stages.op = "encode" /\ stages.batch = 3
    /\ StagesRun = {"pretransform.encode", "encoder", "bottleneck.encode"}
    /\ Len(stages.calls) = 7
    /\ stages.calls[6].items = <<2>>
    /\ stages.calls[7].items = <<0, 1, 2>>

(* C20: every item is handed to prepare_audio with target_length =
   padded_audio_length, and padded_audio_length is the smallest multiple of
   min_length that is >= the length of the longest resampled item; it is
   that length when the length is a multiple of min_length already *)
C20_PaddedLength ==
    prep.pc = "done" =>
        LET p == prep.padded_audio_length
            m == prep.min_length
        IN  /\ p % m = 0
            /\ \A k \in 1..Len(prep.lens) : prep.lens[k] <= p
            /\ p = 0 \/ \E k \in 1..Len(prep.lens) : prep.lens[k] > p - m
            /\ (\E k \in 1..Len(prep.lens) :
                    /\ prep.lens[k] % m = 0
                    /\ \A j \in 1..Len(prep.lens) : prep.lens[j] <= prep.lens[k])
               => \E k \in 1..Len(prep.lens) : p = prep.lens[k]
            /\ Len(prep.target_length) = Len(prep.lens)
            /\ \A k \in 1..Len(prep.lens) : prep.target_length[k] = p

C20_Witness ==
    /\ prep.pc = "done" /\ prep.kind = "DiffusionAutoencoder"
    /\ prep.min_length = 6 /\ prep.lens = <<2, 6>>
    /\ prep.padded_audio_length = 6
    /\ prep.target_length = <<6, 6>>

(* samples (encode_audio) or latent frames (decode_audio) per unit of the
   chunk_size and overlap arguments *)
InScale == IF call = "encode_audio" THEN downsampling_ratio ELSE 1

(* chunk size, hop and number of hop-grid offsets k * hop with
   k * hop + chunk size <= total_length, in the units of the input *)
InChunk == args.chunk_size * InScale

InHop == (args.chunk_size - args.overlap) * InScale

GridCount == ((total_size - InChunk) \div InHop) + 1

(* the last hop-grid window does not end at total_length *)
OffGrid == (GridCount - 1) * InHop + InChunk # total_size

(* C21: for 0 <= overlap < chunk_size <= total_length the windows collected
   are, in increasing order, one window of length chunk_size at every offset
   k * hop_size with k * hop_size + chunk_size <= total_length, and one
   further window at total_length - chunk_size exactly when the last of
   those does not end at total_length; every window lies within
   [0, total_length) and all have the same length *)
C21_WindowGeneration ==
    (Valid /\ Stitching) =>
        /\ Len(chunks) = GridCount + (IF OffGrid THEN 1 ELSE 0)
        /\ \A k \in 1..GridCount :
               chunks[k] = [start |-> (k - 1) * InHop, len |-> InChunk]
        /\ OffGrid =>
               chunks[GridCount + 1] = [start |-> total_size - InChunk, len |-> InChunk]
        /\ \A k \in 1..Len(chunks) :
               /\ chunks[k].start >= 0
               /\ chunks[k].start + chunks[k].len <= total_size
               /\ chunks[k].len = chunks[1].len
        /\ \A k \in 1..(Len(chunks) - 1) : chunks[k].start < chunks[k + 1].start

C21_Witness ==
    /\ Valid /\ pc = "done" /\ call = "encode_audio" /\ downsampling_ratio = 2
    /\ GridCount = 3 /\ OffGrid /\ Len(chunks) = 4
    /\ chunks[4].start = total_size - InChunk

(* the input positions window k covers *)
Positions(k) == {p \in 0..(total_size - 1) :
                    p >= chunks[k].start /\ p < chunks[k].start + chunks[k].len}

(* the number of positions windows k and k + 1 share *)
Shared(k) == Cardinality(Positions(k) \cap Positions(k + 1))

(* a window was appended after the hop-grid windows *)
FinalAppended == Len(chunks) > GridCount

(* C22: whenever a right-aligned final window is appended, its start lies
   strictly between the previous window's start and that start + hop_size,
   so the last two windows share strictly more than overlap and strictly
   fewer than chunk_size positions; every other pair of adjacent windows
   shares exactly overlap positions *)
C22_FinalWindowOverlap ==
    (Valid /\ Stitching) =>
        \A k \in 1..(Len(chunks) - 1) :
            IF FinalAppended /\ k = Len(chunks) - 1
            THEN /\ chunks[k].start < chunks[k + 1].start
                 /\ chunks[k + 1].start < chunks[k].start + InHop
                 /\ Shared(k) > args.overlap * InScale
                 /\ Shared(k) < InChunk
            ELSE Shared(k) = args.overlap * InScale

C22_Witness ==
    /\ Valid /\ pc = "done" /\ call = "decode_audio"
    /\ FinalAppended /\ Len(chunks) = 3 /\ args.overlap = 1
    /\ Shared(1) = 1 /\ Shared(2) = 3 /\ args.chunk_size = 4

(* the present stages of the call, in the order the claim gives *)
ExpectedOrder ==
    IF stages.op = "encode"
    THEN (IF stages.cfg.pretransform /\ ~stages.cfg.skip_pretransform
          THEN <<"pretransform.encode">> ELSE <<>>)
         \o (IF stages.cfg.encoder THEN <<"encoder">> ELSE <<>>)
         \o (IF stages.cfg.bottleneck THEN <<"bottleneck.encode">> ELSE <<>>)
    ELSE (IF stages.cfg.bottleneck THEN <<"bottleneck.decode">> ELSE <<>>)
         \o <<"decoder">>
         \o (IF stages.cfg.pretransform THEN <<"pretransform.decode">> ELSE <<>>)

(* the soft clip is the last thing decode applies *)
ExpectedHistory ==
    ExpectedOrder \o (IF stages.op = "decode" /\ stages.cfg.soft_clip
                      THEN <<"tanh">> ELSE <<>>)

(* C23: encode runs its present stages in the order pretransform.encode,
   encoder, bottleneck.encode and decode in the order bottleneck.decode,
   decoder, pretransform.decode, the soft clip last; with iterate_batch
   false each present stage is invoked exactly once, on the whole batch;
   skip_pretransform removes only the pretransform stage of encode *)
C23_StageOrdering ==
    stages.pc = "done" =>
        /\ \A k \in 1..Len(stages.out) : stages.out[k].hist = ExpectedHistory
        /\ Len(stages.out) = stages.batch
        /\ ~stages.iterate_batch =>
              /\ [k \in 1..Len(stages.calls) |-> stages.calls[k].stage] = ExpectedOrder
              /\ \A k \in 1..Len(stages.calls) :
                     stages.calls[k].items = Ids(Batch(stages.batch))

C23_Witness ==
    /\ stages.pc = "done" /\ ~stages.iterate_batch /\ stages.op = "decode"
    /\ stages.cfg.bottleneck /\ stages.cfg.pretransform /\ stages.cfg.soft_clip
    /\ stages.batch = 2
    /\ stages.out[2].hist = <<"bottleneck.decode", "decoder", "pretransform.decode", "tanh">>
    /\ Len(stages.calls) = 3

(* the same call of encode with skip_pretransform: only the pretransform
   stage is gone *)
C23_WitnessSkip ==
    /\ stages.pc = "done" /\ stages.op = "encode" /\ stages.cfg.skip_pretransform
    /\ stages.cfg.pretransform /\ stages.cfg.encoder /\ stages.cfg.bottleneck
    /\ stages.out[1].hist = <<"encoder", "bottleneck.encode">>

CallsNamed(st) == Cardinality({k \in 1..Len(stages.calls) : stages.calls[k] = st})

(* C25: DiffusionAutoencoder.decode never fails by re-entering itself, applies
   bottleneck.decode at most once, invokes the decoder at most once, and when
   it has returned it has invoked the sampler exactly once *)
C25_DiffusionDecodeTerminates ==
    stages.op = "diffusion_decode" =>
        /\ stages.pc # "error"
        /\ stages.depth = 0
        /\ CallsNamed("bottleneck.decode") <= 1
        /\ CallsNamed("decoder") <= 1
        /\ stages.pc = "done" => CallsNamed("sample") = 1

(* the stages named st.* or st that item k of the result went through *)
WentThrough(k, names) ==
    \E j \in 1..Len(stages.out[k].hist) : stages.out[k].hist[j] \in names

(* C24: with the encoder None, encode hands the (pre-transformed) input
   unchanged to the bottleneck stage and does not fail; a None bottleneck or
   pretransform is skipped in encode and in decode; with the decoder None,
   DiffusionAutoencoder.decode does not fail and hands the latents, with no
   decoder applied, on to the sampler *)
C24_AbsentIsIdentity ==
    /\ (stages.pc = "done" /\ stages.op \in {"encode", "decode"}) =>
          \A k \in 1..stages.batch :
              /\ stages.out[k].id = k - 1
              /\ (stages.op = "encode" /\ ~stages.cfg.encoder) =>
                    stages.out[k].hist =
                        (IF stages.cfg.pretransform /\ ~stages.cfg.skip_pretransform
                         THEN <<"pretransform.encode">> ELSE <<>>)
                        \o (IF stages.cfg.bottleneck
                            THEN <<"bottleneck.encode">> ELSE <<>>)
              /\ ~stages.cfg.bottleneck =>
                    ~WentThrough(k, {"bottleneck.encode", "bottleneck.decode", "None"})
              /\ ~stages.cfg.pretransform =>
                    ~WentThrough(k, {"pretransform.encode", "pretransform.decode", "None"})
    /\ (stages.pc # "idle" /\ stages.op = "diffusion_decode" /\ ~stages.cfg.decoder) =>
          /\ stages.pc # "error"
          /\ stages.depth = 0
          /\ stages.pc \in {"sample", "done"} =>
                stages.latents =
                    [len |-> stages.input.len,
                     hist |-> IF stages.cfg.bottleneck
                              THEN <<"bottleneck.decode">> ELSE <<>>]
          /\ stages.pc = "done" =>
                /\ stages.cond = Diff_Interpolate(stages.latents,
                                                  stages.input.len * stages.ratio)
                /\ CallsNamed("sample") = 1

C24_Witness ==
    /\ stages.pc = "done" /\ stages.op = "encode" /\ ~stages.cfg.encoder
    /\ stages.cfg.pretransform /\ ~stages.cfg.skip_pretransform
    /\ stages.cfg.bottleneck /\ stages.batch = 2
    /\ stages.out[2].hist = <<"pretransform.encode", "bottleneck.encode">>

(* DiffusionAutoencoder.decode without a decoder has returned *)
C24_WitnessDiffusion ==
    /\ stages.pc = "done" /\ stages.op = "diffusion_decode"
    /\ ~stages.cfg.decoder /\ stages.cfg.bottleneck /\ stages.ratio = 2
    /\ stages.cond.hist = <<"bottleneck.decode", "interpolate">>

(* C26: in a call with 0 <= overlap < chunk_size <= total_length every paste
   of the stitching loop has 0 <= t_start < t_end <= output_length,
   0 <= chunk_start < chunk_end <= chunk output length and
   t_end - t_start = chunk_end - chunk_start, and no paste fails *)
C26_PasteWellFormed ==
    Valid =>
        /\ pc # "error"
        /\ \A k \in 1..Len(pastes) :
               LET ps == pastes[k]
               IN  /\ 0 <= ps.t_start /\ ps.t_start < ps.t_end /\ ps.t_end <= y_size
                   /\ 0 <= ps.chunk_start /\ ps.chunk_start < ps.chunk_end
                   /\ ps.chunk_end <= ps.y_chunk_len
                   /\ ps.t_end - ps.t_start = ps.chunk_end - ps.chunk_start
                   /\ ps.y_chunk_len = (IF call = "encode_audio"
                                        THEN args.chunk_size
                                        ELSE args.chunk_size * downsampling_ratio)

C26_Witness ==
    /\ Valid /\ pc = "done" /\ call = "encode_audio" /\ downsampling_ratio = 2
    /\ args.chunk_size = 3 /\ args.overlap = 2 /\ Len(pastes) >= 4
    /\ pastes[2].t_end - pastes[2].t_start = 1
    /\ pastes[2].chunk_start = 1 /\ pastes[2].chunk_end = 2

(* the last paste that wrote output index p *)
LastWriter(p) ==
    CHOOSE k \in 1..Len(pastes) :
        /\ p \in Written(k)
        /\ \A j \in 1..Len(pastes) : p \in Written(j) => j <= k

(* the window of paste k and its start in the units of the output *)
WindowOf(k) == [start |-> pastes[k].start, len |-> pastes[k].len]

OutStart(k) ==
    IF call = "encode_audio" THEN pastes[k].start \div downsampling_ratio
    ELSE pastes[k].start * downsampling_ratio

(* ol in the units of the output *)
OutOl ==
    IF call = "encode_audio" THEN args.overlap \div 2
    ELSE (args.overlap \div 2) * downsampling_ratio

CodecOut(w) == IF call = "encode_audio" THEN EncodeOut(w) ELSE DecodeOut(w)

(* C27: after a chunked call with 0 <= overlap < chunk_size <= total_length
   the value at every output index p is the codec output, at source index
   p - window start, of the window of the last chunk that wrote p, and that
   source index is at least ol away from each edge of the window that is not
   the start or the end of the signal *)
C27_Provenance ==
    (pc = "done" /\ Valid) =>
        \A p \in 0..(y_size - 1) :
            /\ \E k \in 1..Len(pastes) : p \in Written(k)
            /\ LET k == LastWriter(p)
                   ps == pastes[k]
                   src == ps.chunk_start + (p - ps.t_start)
               IN  /\ OutStart(k) + src = p
                   /\ src >= 0 /\ src < ps.y_chunk_len
                   /\ y_final[p] = CodecOut(WindowOf(k))[src]
                   /\ ps.start > 0 => src >= OutOl
                   /\ ps.start + ps.len < total_size => src < ps.y_chunk_len - OutOl

C27_Witness ==
    /\ pc = "done" /\ Valid /\ ~OnGrid /\ call = "decode_audio"
    /\ downsampling_ratio = 2 /\ args.overlap = 2 /\ Len(pastes) >= 3
    /\ reach_left = 1 /\ reach_right = 1
    /\ \E p \in 0..(y_size - 1) :
           /\ WriteCount(p) = 2
           /\ LastWriter(p) = Len(pastes)
           /\ pastes[Len(pastes)].chunk_start + (p - pastes[Len(pastes)].t_start) >= 2

(* every output index has been written exactly once *)
ExactTiling == \A p \in 0..(y_size - 1) : WriteCount(p) = 1

(* C28: for 0 <= overlap < chunk_size <= total_length the writes of a
   chunked call cover [0, output_length) with every index written exactly
   once if and only if there is a single chunk, or overlap is even and
   total_length - chunk_size is a multiple of hop_size *)
C28_ExactTilingIff ==
    (pc = "done" /\ Valid) =>
        (ExactTiling <=>
            (Len(chunks) = 1 \/ (args.overlap % 2 = 0 /\ OnGrid)))

(* an on-grid call with an odd overlap and two chunks *)
C28_Witness ==
    /\ pc = "done" /\ Valid /\ OnGrid /\ args.overlap = 3
    /\ Len(chunks) = 2 /\ ~ExactTiling /\ call = "decode_audio"

(* a call with an odd overlap and a single chunk *)
C28_WitnessSingle ==
    /\ pc = "done" /\ Valid /\ args.overlap % 2 = 1
    /\ Len(chunks) = 1 /\ ExactTiling

(* an on-grid call with an even overlap and three chunks *)
C28_WitnessEven ==
    /\ pc = "done" /\ Valid /\ OnGrid /\ args.overlap = 2
    /\ Len(chunks) = 3 /\ ExactTiling

(* C29: create_encoder_from_config and create_decoder_from_config leave the
   config they are given as it was, for every type tag, and two calls on one
   config object construct the module from the same parameters *)
C29_ConfigUnchanged ==
    factory.pc = "shared" =>
        /\ factory.config = factory.original
        /\ Len(factory.params) = 2 => factory.params[1] = factory.params[2]

(* C30: the keyword options given to encode_audio / decode_audio reach every
   self.encode / self.decode invocation, chunked or not, and the value
   returned has the form the non-chunked call returns for those options *)
C30_OptionsHonoured ==
    "kwargs" \in DOMAIN stages =>
        /\ \A k \in 1..Len(stages.invocations) :
               stages.invocations[k] = stages.kwargs
        /\ stages.pc = "done" => stages.form = ResultForm(stages.op, stages.kwargs)

====
